---- MODULE Spec2Model ----
(***************************************************************************)
(* Model of machine.go of go-virtualbox: the Machine snapshot, Refresh /   *)
(* GetMachine, and the lifecycle operations Start, Save, Pause, Stop,      *)
(* Poweroff, Restart, Reset and Delete, run by one caller against one      *)
(* externally managed virtual machine.                                     *)
(*                                                                         *)
(* Strings are TLA+ strings.  Where the code looks inside a string (the    *)
(* decimal digits given to strconv.ParseUint, the elements of the path     *)
(* given to filepath.Dir) the characters of the literals that occur in the *)
(* model are listed in Chars and PathElems.                                *)
(***************************************************************************)
EXTENDS Integers, Sequences, FiniteSets, TLC

VARIABLES
    m,          \* the caller's Machine value (the receiver *m)
    ext,        \* the virtual machine as the management tool holds it
    stack,      \* call stack of the caller: frames [fn, pc], top is last
    ret,        \* error returned by the call that returned last
    op,         \* the operation the caller invoked ("none" before the first)
    entry,      \* m.State when that operation was invoked
    result,     \* Pending while it runs, then the error it returned
    cmds,       \* external commands issued by the operation, in order
    overflow,   \* TRUE when commands beyond MaxLog were left out of cmds
    last,       \* the command issued last by the operation
    refreshes,  \* successful Refreshes since ext changed last, up to MaxFresh
    args,       \* the arguments of the modifyvm command issued last
    reg,        \* the machines registered with the tool, in listing order
    callers     \* the callers of GetMachine, ListMachines and CreateMachine

vars == <<m, ext, stack, ret, op, entry, result, cmds, overflow, last, refreshes,
          args, reg, callers>>

----------------------------------------------------------------------------
(* Bounds *)

\* Number of commands of one operation that are recorded in cmds.
MaxLog == 6

\* Cap of the count of successive Refreshes of an unchanged machine.
MaxFresh == 2

----------------------------------------------------------------------------
(* MachineState *)

Poweroff == "poweroff"
Running  == "running"
Paused   == "paused"
Saved    == "saved"
Aborted  == "aborted"

MachineStates == {Poweroff, Running, Paused, Saved, Aborted}

\* A state the tool reports while a machine shuts down; not among the five.
Stopping == "stopping"

\* What the tool can report in its VMState line.
ExtStates == MachineStates \cup {Stopping}

\* What the State field can hold: MachineState is a string type, the zero
\* value is the empty string.
CachedStates == ExtStates \cup {""}

----------------------------------------------------------------------------
(* Errors *)

Nil == [kind |-> "nil", cmd |-> "-"]

\* the error vbm returns when the command cmd exits with a failure
ExecError(cmd) == [kind |-> "exec", cmd |-> cmd]

ErrMachineNotExist == [kind |-> "ErrMachineNotExist", cmd |-> "showvminfo"]

\* the error of strconv.ParseUint for the value of key
ParseError(key) == [kind |-> "parse", cmd |-> key]

\* result of an operation that has not returned yet
Pending == [kind |-> "pending", cmd |-> "-"]

----------------------------------------------------------------------------
(* Machine *)

\* the zero value &Machine{} that GetMachine starts from
EmptyMachine ==
    [Name |-> "", UUID |-> "", State |-> "", CPUs |-> 0, Memory |-> 0,
     VRAM |-> 0, CfgFile |-> "", BaseFolder |-> "", OSType |-> "",
     Flag |-> 0, BootOrder |-> <<>>, Description |-> ""]

\* the nil *Machine that GetMachine returns together with an error
NilMachine == [EmptyMachine EXCEPT !.Name = "<nil>"]

----------------------------------------------------------------------------
(* The management tool: showvminfo --machinereadable *)

\* A line of output is a record: key and value, each bare or double-quoted,
\* or a line without any "=" (eq = FALSE).
Line(k, kq, v, vq) == [eq |-> TRUE, key |-> k, kq |-> kq, val |-> v, vq |-> vq]
NoEqLine == [eq |-> FALSE, key |-> "Time offset", kq |-> FALSE, val |-> "", vq |-> FALSE]

\* The settings the tool can hold for the machine "demo".  Settings 1 are
\* those of the demo block; 2 has a non-numeric memory; 3 has a vram that
\* does not fit 32 bits; 4 prints no VMState line.
Settings ==
    << [name |-> "demo", uuid |-> "1234-uuid", memory |-> "512", cpus |-> "2",
        vram |-> "16", cfgfile |-> "/vms/demo/demo.vbox", desc |-> "web",
        hasState |-> TRUE],
       [name |-> "demo", uuid |-> "1234-uuid", memory |-> "x", cpus |-> "2",
        vram |-> "16", cfgfile |-> "/vms/demo/demo.vbox", desc |-> "web",
        hasState |-> TRUE],
       [name |-> "demo", uuid |-> "1234-uuid", memory |-> "512", cpus |-> "2",
        vram |-> "4294967296", cfgfile |-> "/vms/demo/demo.vbox", desc |-> "",
        hasState |-> TRUE],
       [name |-> "demo", uuid |-> "1234-uuid", memory |-> "512", cpus |-> "2",
        vram |-> "16", cfgfile |-> "/vms/demo/demo.vbox", desc |-> "web",
        hasState |-> FALSE] >>

ExtVMs == [registered : BOOLEAN, state : ExtStates, cfg : DOMAIN Settings]

\* standard output of a successful showvminfo of the machine e
ShowVMInfo(e) ==
    LET s == Settings[e.cfg]
    IN  <<Line("name", FALSE, s.name, TRUE),
          Line("ostype", FALSE, "Linux", TRUE),
          Line("UUID", FALSE, s.uuid, TRUE),
          Line("CfgFile", FALSE, s.cfgfile, TRUE),
          NoEqLine,
          Line("memory", FALSE, s.memory, FALSE)>>
        \o (IF s.hasState THEN <<Line("VMState", FALSE, e.state, TRUE)>> ELSE <<>>)
        \o <<Line("vram", FALSE, s.vram, FALSE),
             Line("cpus", FALSE, s.cpus, FALSE),
             Line("acpi", FALSE, "on", TRUE),
             Line("boot1", FALSE, "disk", TRUE),
             Line("description", FALSE, s.desc, TRUE)>>

\* error-stream texts of a failed command
StderrNotFound == "VBoxManage: error: Could not find a registered machine named 'demo'"
StderrOther    == "VBoxManage: error: The object is not ready"

\* vbmOutErr("showvminfo", id, "--machinereadable"): the outcomes the tool
\* can produce for the machine e.  A lookup of an id that names no
\* registered machine fails with the could-not-find text; any lookup can
\* fail for another reason.
ShowVMInfoRuns(id, e) ==
    LET s == Settings[e.cfg]
        found == e.registered /\ id # "" /\ id \in {s.name, s.uuid}
    IN  (IF found
           THEN {[stdout |-> ShowVMInfo(e), stderr |-> "", err |-> Nil]}
           ELSE {[stdout |-> <<>>, stderr |-> StderrNotFound,
                  err |-> ExecError("showvminfo")]})
        \cup {[stdout |-> <<>>, stderr |-> StderrOther,
               err |-> ExecError("showvminfo")]}

\* reMachineNotFound.FindString(stderr) != ""
reMachineNotFound(stderr) == stderr = StderrNotFound

\* reVMInfoLine.FindStringSubmatch: the four groups (quoted key, bare key,
\* quoted value, bare value), quotes stripped; matched = FALSE is nil.
reVMInfoLine(l) ==
    IF ~l.eq
    THEN [matched |-> FALSE, r1 |-> "", r2 |-> "", r3 |-> "", r4 |-> ""]
    ELSE [matched |-> TRUE,
          r1 |-> IF l.kq THEN l.key ELSE "",
          r2 |-> IF l.kq THEN "" ELSE l.key,
          r3 |-> IF l.vq THEN l.val ELSE "",
          r4 |-> IF l.vq THEN "" ELSE l.val]

----------------------------------------------------------------------------
(* strconv.ParseUint(val, 10, 32) and filepath.Dir *)

\* the characters of the numeric texts of the model
Chars(s) ==
    CASE s = "512"        -> <<"5", "1", "2">>
      [] s = "2"          -> <<"2">>
      [] s = "16"         -> <<"1", "6">>
      [] s = "x"          -> <<"x">>
      [] s = "2048"       -> <<"2", "0", "4", "8">>
      [] s = "4"          -> <<"4">>
      [] s = "32"         -> <<"3", "2">>
      [] s = "128"        -> <<"1", "2", "8">>
      [] s = "1"          -> <<"1">>
      [] s = "8"          -> <<"8">>
      [] s = "4294967296" -> <<"4", "2", "9", "4", "9", "6", "7", "2", "9", "6">>
      [] OTHER            -> <<>>

DigitValue(c) ==
    CASE c = "0" -> 0 [] c = "1" -> 1 [] c = "2" -> 2 [] c = "3" -> 3
      [] c = "4" -> 4 [] c = "5" -> 5 [] c = "6" -> 6 [] c = "7" -> 7
      [] c = "8" -> 8 [] c = "9" -> 9 [] OTHER -> -1

\* The decimal digits of the largest value of 32 bits, 4294967295 (the
\* bitSize argument of ParseUint); the range check compares digits, as the
\* numbers of TLC stop at 2^31 - 1.
MaxUint32Digits == <<4, 2, 9, 4, 9, 6, 7, 2, 9, 5>>

RECURSIVE StripZeros(_)
StripZeros(ds) ==
    IF Len(ds) > 1 /\ ds[1] = 0 THEN StripZeros(Tail(ds)) ELSE ds

\* ds > max for digit sequences of the same length
RECURSIVE DigitsGreater(_, _, _)
DigitsGreater(ds, max, i) ==
    IF i > Len(ds) THEN FALSE
    ELSE IF ds[i] # max[i] THEN ds[i] > max[i]
    ELSE DigitsGreater(ds, max, i + 1)

\* the value is out of the range of 32 bits
OutOfRange(ds) ==
    LET z == StripZeros(ds)
    IN  \/ Len(z) > Len(MaxUint32Digits)
        \/ Len(z) = Len(MaxUint32Digits) /\ DigitsGreater(z, MaxUint32Digits, 1)

RECURSIVE DigitsValue(_, _, _)
DigitsValue(ds, i, n) ==
    IF i > Len(ds) THEN n ELSE DigitsValue(ds, i + 1, n * 10 + ds[i])

\* strconv.ParseUint(s, 10, 32): ok = FALSE for the empty string, for a
\* character that is no digit (ErrSyntax) and for a value beyond 32 bits
\* (ErrRange)
ParseUint(s) ==
    LET cs == Chars(s)
        ds == [i \in 1..Len(cs) |-> DigitValue(cs[i])]
    IN  IF cs = <<>> \/ \E i \in 1..Len(cs) : ds[i] < 0
        THEN [ok |-> FALSE, n |-> 0]
        ELSE IF OutOfRange(ds) THEN [ok |-> FALSE, n |-> 0]
        ELSE [ok |-> TRUE, n |-> DigitsValue(ds, 1, 0)]

\* the elements of the paths of the model
PathElems(p) ==
    CASE p = "/vms/demo/demo.vbox" -> <<"vms", "demo", "demo.vbox">>
      [] p = "/vms/demo"           -> <<"vms", "demo">>
      [] p = "/old/demo.vbox"      -> <<"old", "demo.vbox">>
      [] p = "/old"                -> <<"old">>
      [] p = "/vms/web/web.vbox"   -> <<"vms", "web", "web.vbox">>
      [] p = "/vms/web"            -> <<"vms", "web">>
      [] p = "/vms/new/new.vbox"   -> <<"vms", "new", "new.vbox">>
      [] p = "/vms/new"            -> <<"vms", "new">>
      [] p = "/data/new/new.vbox"  -> <<"data", "new", "new.vbox">>
      [] p = "/data/new"           -> <<"data", "new">>
      [] p = "/"                   -> <<>>
      [] OTHER                     -> <<".">>

Paths == {"/vms/demo/demo.vbox", "/vms/demo", "/old/demo.vbox", "/old", "/",
          "/vms/web/web.vbox", "/vms/web", "/vms/new/new.vbox", "/vms/new",
          "/data/new/new.vbox", "/data/new"}

\* filepath.Dir: all but the last element of the path; "." for the empty path
Dir(p) ==
    IF p \notin Paths THEN "."
    ELSE LET es == PathElems(p)
             front == IF es = <<>> THEN <<>> ELSE SubSeq(es, 1, Len(es) - 1)
         IN  CHOOSE q \in Paths : PathElems(q) = front

----------------------------------------------------------------------------
(* GetMachine and Refresh *)

\* A conversion that turns every value outside the five states into poweroff.
MachineStateCoerced(val) == IF val \in MachineStates THEN val ELSE Poweroff

\* MachineState(val): the conversion of a string to the string type
\* MachineState keeps every value as it is
MachineState(val) == val

\* the switch of GetMachine on one matched line: the Machine after the line,
\* and the error that ends the scan (Nil if none)
ApplyLine(mm, key, val) ==
    CASE key = "name"    -> [mm |-> [mm EXCEPT !.Name = val], err |-> Nil]
      [] key = "UUID"    -> [mm |-> [mm EXCEPT !.UUID = val], err |-> Nil]
      [] key = "VMState" -> [mm |-> [mm EXCEPT !.State = MachineState(val)], err |-> Nil]
      [] key = "memory"  ->
            LET r == ParseUint(val)
            IN  IF ~r.ok THEN [mm |-> mm, err |-> ParseError(key)]
                ELSE [mm |-> [mm EXCEPT !.Memory = r.n], err |-> Nil]
      [] key = "cpus"    ->
            LET r == ParseUint(val)
            IN  IF ~r.ok THEN [mm |-> mm, err |-> ParseError(key)]
                ELSE [mm |-> [mm EXCEPT !.CPUs = r.n], err |-> Nil]
      [] key = "vram"    ->
            LET r == ParseUint(val)
            IN  IF ~r.ok THEN [mm |-> mm, err |-> ParseError(key)]
                ELSE [mm |-> [mm EXCEPT !.VRAM = r.n], err |-> Nil]
      [] key = "CfgFile" ->
            [mm |-> [mm EXCEPT !.CfgFile = val, !.BaseFolder = Dir(val)], err |-> Nil]
      [] key = "description" ->
            [mm |-> [mm EXCEPT !.Description = val], err |-> Nil]
      [] OTHER -> [mm |-> mm, err |-> Nil]

\* A scan loop that reads values from the quoted group only.
RECURSIVE ScanLinesQuotedOnly(_, _, _)
ScanLinesQuotedOnly(stdout, i, mm) ==
    IF i > Len(stdout) THEN [mm |-> mm, err |-> Nil]
    ELSE LET res == reVMInfoLine(stdout[i])
             key == IF res.r1 = "" THEN res.r2 ELSE res.r1
             val == res.r3
         IN  IF ~res.matched THEN ScanLinesQuotedOnly(stdout, i + 1, mm)
             ELSE LET a == ApplyLine(mm, key, val)
                  IN  IF a.err # Nil THEN a
                      ELSE ScanLinesQuotedOnly(stdout, i + 1, a.mm)

\* the scan loop of GetMachine from line i on, filling mm
RECURSIVE ScanLines(_, _, _)
ScanLines(stdout, i, mm) ==
    IF i > Len(stdout) THEN [mm |-> mm, err |-> Nil]
    ELSE LET res == reVMInfoLine(stdout[i])
             key == IF res.r1 = "" THEN res.r2 ELSE res.r1
             val == IF res.r3 = "" THEN res.r4 ELSE res.r3
         IN  IF ~res.matched THEN ScanLines(stdout, i + 1, mm)
             ELSE LET a == ApplyLine(mm, key, val)
                  IN  IF a.err # Nil THEN a
                      ELSE ScanLines(stdout, i + 1, a.mm)

\* A GetMachine that reports every failed command as the execution error.
GetMachineGeneric(run) ==
    IF run.err # Nil THEN [mm |-> NilMachine, err |-> run.err]
    ELSE LET r == ScanLines(run.stdout, 1, EmptyMachine)
         IN  IF r.err # Nil THEN [mm |-> NilMachine, err |-> r.err] ELSE r

\* GetMachine, given the outcome run of its showvminfo command
GetMachine(run) ==
    IF run.err # Nil
    THEN IF reMachineNotFound(run.stderr)
         THEN [mm |-> NilMachine, err |-> ErrMachineNotExist]
         ELSE [mm |-> NilMachine, err |-> run.err]
    ELSE LET r == ScanLines(run.stdout, 1, EmptyMachine)
         IN  IF r.err # Nil THEN [mm |-> NilMachine, err |-> r.err] ELSE r

\* the id that Refresh looks up
RefreshId(mach) == IF mach.Name = "" THEN mach.UUID ELSE mach.Name

\* A Refresh that parses into the live Machine line by line instead of
\* swapping in a complete snapshot.
RefreshedInPlace(mach, run) ==
    IF run.err # Nil THEN mach ELSE ScanLines(run.stdout, 1, mach).mm

\* A Refresh that adds the parsed sizes to the ones it holds.
RefreshedAdding(mach, run) ==
    LET r == GetMachine(run)
    IN  IF r.err # Nil THEN mach
        ELSE [r.mm EXCEPT !.Memory = mach.Memory + r.mm.Memory]

\* A Refresh that keeps the fields that no line of the output fills.
RefreshedKeeping(mach, run) ==
    LET r == GetMachine(run)
    IN  IF r.err # Nil THEN mach
        ELSE [r.mm EXCEPT !.OSType = mach.OSType, !.Flag = mach.Flag,
                          !.BootOrder = mach.BootOrder]

\* the Machine after Refresh: *m = *mm on success, untouched on error
Refreshed(mach, run) ==
    LET r == GetMachine(run)
    IN  IF r.err # Nil THEN mach ELSE r.mm

----------------------------------------------------------------------------
(* vbm: running one command of the management tool *)

Cmds == {"resume", "startvm", "savestate", "pause", "acpipowerbutton",
         "poweroff", "reset", "unregistervm", "showvminfo", "modifyvm"}

\* what a successful command does to the machine the tool holds
VBoxEffect(cmd, e) ==
    CASE cmd = "resume" /\ e.state = Paused -> [e EXCEPT !.state = Running]
      [] cmd = "startvm" /\ e.state \in {Poweroff, Saved, Aborted} ->
            [e EXCEPT !.state = Running]
      [] cmd = "savestate" /\ e.state \in {Running, Paused} -> [e EXCEPT !.state = Saved]
      [] cmd = "pause" /\ e.state = Running -> [e EXCEPT !.state = Paused]
      [] cmd = "poweroff" /\ e.state \in {Running, Paused, Stopping} ->
            [e EXCEPT !.state = Poweroff]
      [] cmd = "unregistervm" -> [e EXCEPT !.registered = FALSE]
      [] OTHER -> e

\* the entry of the command log for one command
Entry(cmd, err, obs) == [cmd |-> cmd, err |-> err, obs |-> obs]

\* the error vbm returns
VbmErr(cmd, ok) == IF ok THEN Nil ELSE ExecError(cmd)

Logged(e) ==
    /\ last' = e
    /\ IF Len(cmds) < MaxLog
       THEN cmds' = Append(cmds, e) /\ overflow' = overflow
       ELSE cmds' = cmds /\ overflow' = TRUE

NoCmd == UNCHANGED <<ext, cmds, overflow, last>>

\* a change of the machine the tool holds makes the snapshot stale
Tracked == refreshes' = IF ext' = ext THEN refreshes ELSE 0

\* vbm(cmd...): the command runs and succeeds (ok) or fails
Vbm(cmd, ok) ==
    /\ ext' = IF ok THEN VBoxEffect(cmd, ext) ELSE ext
    /\ Logged(Entry(cmd, VbmErr(cmd, ok), "-"))

----------------------------------------------------------------------------
(* The caller's control: frames of the running calls *)

Top == stack[Len(stack)]

Running_(fn) == stack # <<>> /\ Top.fn = fn

At(fn, pc) == stack # <<>> /\ Top.fn = fn /\ Top.pc = pc

Frame(fn, pc) == [fn |-> fn, pc |-> pc]

\* return v from the running call
Return(v) ==
    /\ stack' = SubSeq(stack, 1, Len(stack) - 1)
    /\ ret' = v
    /\ result' = IF Len(stack) = 1 THEN v ELSE result

\* call fn and continue at pc when it returns
Invoke(fn, pc) ==
    /\ stack' = SubSeq(stack, 1, Len(stack) - 1)
                  \o <<Frame(Top.fn, pc), Frame(fn, "entry")>>
    /\ UNCHANGED <<ret, result>>

Goto(pc) ==
    /\ stack' = [stack EXCEPT ![Len(stack)].pc = pc]
    /\ UNCHANGED <<ret, result>>

----------------------------------------------------------------------------
(* The switches of the lifecycle operations on the cached state *)

\* A Start that boots a paused machine instead of resuming it.
StartCmdBoot(st) ==
    CASE st \in {Paused, Poweroff, Saved, Aborted} -> "startvm"
      [] OTHER -> ""

\* Start: the command for the cached state st, "" when it issues none
StartCmd(st) ==
    CASE st = Paused -> "resume"
      [] st \in {Poweroff, Saved, Aborted} -> "startvm"
      [] OTHER -> ""

\* Save: case Poweroff, Aborted, Saved: return nil
SaveNoop(st) == st \in {Poweroff, Aborted, Saved}

\* A Pause that leaves the saved state out of its no-op case.
PauseNoopSansSaved(st) == st \in {Paused, Poweroff, Aborted}

\* Pause: case Paused, Poweroff, Aborted, Saved: return nil
PauseNoop(st) == st \in {Paused, Poweroff, Aborted, Saved}

\* Stop: case Poweroff, Aborted, Saved: return nil
StopNoop(st) == st \in {Poweroff, Aborted, Saved}

\* A Stop loop without an end.
StopLoopCondForever(st) == TRUE

\* A Stop loop that also ends on the other two stopped states.
StopLoopCondAnyOff(st) == st \notin {Poweroff, Aborted, Saved}

\* Stop: the loop condition m.State != Poweroff
StopLoopCond(st) == st # Poweroff

\* A Poweroff that also skips a paused machine.
PoweroffNoopPaused(st) == st \in {Poweroff, Aborted, Saved, Paused}

\* Poweroff: case Poweroff, Aborted, Saved: return nil
PoweroffNoop(st) == st \in {Poweroff, Aborted, Saved}

\* Save, Stop: case Paused: m.Start()
StartFirst(st) == st = Paused

\* Restart, Reset: case Paused, Saved: m.Start()
RestartStartFirst(st) == st \in {Paused, Saved}

\* An error check that lets every error pass.
FailedIgnored(err) == FALSE

\* if err != nil { return err }
Failed(err) == err # Nil

----------------------------------------------------------------------------
(* Operations *)

Ops == {"Start", "Save", "Pause", "Stop", "Poweroff", "Restart", "Reset",
        "Delete", "Refresh"}

\* the caller invokes operation o on its Machine
Call(o) ==
    /\ stack = <<>>
    /\ stack' = <<Frame(o, "entry")>>
    /\ op' = o
    /\ entry' = m.State
    /\ result' = Pending
    /\ ret' = Nil
    /\ cmds' = <<>>
    /\ overflow' = FALSE
    /\ last' = Entry("-", Nil, "-")
    /\ args' = <<>>
    /\ UNCHANGED <<m, ext, refreshes, reg, callers>>

\* func (m *Machine) Refresh() error
Refresh ==
    /\ Running_("Refresh")
    /\ \E run \in ShowVMInfoRuns(RefreshId(m), ext) :
          LET r == GetMachine(run)
          IN  /\ m' = Refreshed(m, run)
              /\ Logged(Entry("showvminfo", r.err,
                              IF r.err = Nil THEN r.mm.State ELSE "-"))
              /\ Return(r.err)
              /\ refreshes' = IF r.err # Nil THEN refreshes
                               ELSE IF refreshes < MaxFresh THEN refreshes + 1
                               ELSE refreshes
    /\ UNCHANGED <<ext, op, entry, args, reg, callers>>

\* func (m *Machine) Start() error
Start ==
    /\ Running_("Start")
    /\ IF StartCmd(m.State) # ""
       THEN \E ok \in BOOLEAN :
               /\ Vbm(StartCmd(m.State), ok)
               /\ Return(VbmErr(StartCmd(m.State), ok))
       ELSE NoCmd /\ Return(Nil)
    /\ UNCHANGED <<m, op, entry>>
    /\ Tracked
    /\ UNCHANGED <<args, reg, callers>>

\* func (m *Machine) Save() error
Save ==
    /\ Running_("Save")
    /\ CASE Top.pc = "entry" /\ StartFirst(m.State) ->
               NoCmd /\ Invoke("Start", "started")
         [] Top.pc = "entry" /\ SaveNoop(m.State) ->
               NoCmd /\ Return(Nil)
         [] Top.pc = "started" /\ Failed(ret) ->
               NoCmd /\ Return(ret)
         [] OTHER ->
               \E ok \in BOOLEAN :
                  Vbm("savestate", ok) /\ Return(VbmErr("savestate", ok))
    /\ UNCHANGED <<m, op, entry>>
    /\ Tracked
    /\ UNCHANGED <<args, reg, callers>>

\* func (m *Machine) Pause() error
Pause ==
    /\ Running_("Pause")
    /\ IF PauseNoop(m.State)
       THEN NoCmd /\ Return(Nil)
       ELSE \E ok \in BOOLEAN : Vbm("pause", ok) /\ Return(VbmErr("pause", ok))
    /\ UNCHANGED <<m, op, entry>>
    /\ Tracked
    /\ UNCHANGED <<args, reg, callers>>

\* func (m *Machine) Stop() error
Stop ==
    /\ Running_("Stop")
    /\ CASE Top.pc = "entry" /\ StopNoop(m.State) ->
               NoCmd /\ Return(Nil)
         [] Top.pc = "entry" /\ StartFirst(m.State) ->
               NoCmd /\ Invoke("Start", "started")
         [] Top.pc = "entry" ->
               NoCmd /\ Goto("loop")
         [] Top.pc = "started" ->
               NoCmd /\ IF Failed(ret) THEN Return(ret) ELSE Goto("loop")
         [] Top.pc = "loop" /\ ~StopLoopCond(m.State) ->
               NoCmd /\ Return(Nil)
         [] Top.pc = "loop" ->
               \E ok \in BOOLEAN :
                  /\ Vbm("acpipowerbutton", ok)
                  /\ IF Failed(VbmErr("acpipowerbutton", ok))
                     THEN Return(VbmErr("acpipowerbutton", ok))
                     ELSE Goto("sleep")
         [] Top.pc = "sleep" ->
               NoCmd /\ Invoke("Refresh", "refreshed")
         [] OTHER ->   \* "refreshed"
               NoCmd /\ IF Failed(ret) THEN Return(ret) ELSE Goto("loop")
    /\ UNCHANGED <<m, op, entry>>
    /\ Tracked
    /\ UNCHANGED <<args, reg, callers>>

\* func (m *Machine) Poweroff() error
PoweroffOp ==
    /\ Running_("Poweroff")
    /\ IF PoweroffNoop(m.State)
       THEN NoCmd /\ Return(Nil)
       ELSE \E ok \in BOOLEAN : Vbm("poweroff", ok) /\ Return(VbmErr("poweroff", ok))
    /\ UNCHANGED <<m, op, entry>>
    /\ Tracked
    /\ UNCHANGED <<args, reg, callers>>

\* func (m *Machine) Restart() error
Restart ==
    /\ Running_("Restart")
    /\ NoCmd
    /\ CASE Top.pc = "entry" /\ RestartStartFirst(m.State) ->
               Invoke("Start", "started")
         [] Top.pc = "entry" ->
               Invoke("Stop", "stopped")
         [] Top.pc = "started" ->
               IF Failed(ret) THEN Return(ret) ELSE Invoke("Stop", "stopped")
         [] Top.pc = "stopped" ->
               IF Failed(ret) THEN Return(ret) ELSE Invoke("Start", "final")
         [] OTHER ->   \* "final": return m.Start()
               Return(ret)
    /\ UNCHANGED <<m, op, entry>>
    /\ Tracked
    /\ UNCHANGED <<args, reg, callers>>

\* func (m *Machine) Reset() error
Reset ==
    /\ Running_("Reset")
    /\ CASE Top.pc = "entry" /\ RestartStartFirst(m.State) ->
               NoCmd /\ Invoke("Start", "started")
         [] Top.pc = "started" /\ Failed(ret) ->
               NoCmd /\ Return(ret)
         [] OTHER ->
               \E ok \in BOOLEAN : Vbm("reset", ok) /\ Return(VbmErr("reset", ok))
    /\ UNCHANGED <<m, op, entry>>
    /\ Tracked
    /\ UNCHANGED <<args, reg, callers>>

\* func (m *Machine) Delete() error
Delete ==
    /\ Running_("Delete")
    /\ CASE Top.pc = "entry" ->
               NoCmd /\ Invoke("Poweroff", "poweredoff")
         [] Top.pc = "poweredoff" /\ Failed(ret) ->
               NoCmd /\ Return(ret)
         [] OTHER ->
               \E ok \in BOOLEAN :
                  Vbm("unregistervm", ok) /\ Return(VbmErr("unregistervm", ok))
    /\ UNCHANGED <<m, op, entry>>
    /\ Tracked
    /\ UNCHANGED <<args, reg, callers>>

\* The machine changes state outside the caller's commands: the guest shuts
\* down after the power button, crashes, or another actor drives it.  A
\* change between two operations is seen by the next operation only, and is
\* taken after that operation is invoked.
EnvChange ==
    /\ stack # <<>>
    /\ ext.registered
    /\ \E s \in ExtStates \ {ext.state} : ext' = [ext EXCEPT !.state = s]
    /\ refreshes' = 0
    /\ UNCHANGED <<m, stack, ret, op, entry, result, cmds, overflow, last>>
    /\ UNCHANGED <<args, reg, callers>>

----------------------------------------------------------------------------
(* Flags and the modify commands *)

\* the Flag constants in the order of their declaration, FlagACPI first
FlagNames ==
    <<"FlagACPI", "FlagIOAPIC", "FlagRTCUseUTC", "FlagCPUHotplug", "FlagPAE",
      "FlagLongMode", "FlagHPET", "FlagHWvirtEx", "FlagTripleRaultReset",
      "FlagNestedPaging", "FlagLargePages", "FlagVTXVPID", "FlagVTXUX",
      "FlagAccelerate3D", "FlagUSB", "FlagUSBEHCI", "FlagUSBXHCI">>

\* Flag = 1 << iota: the value of the constant of that name
FlagOf(name) ==
    LET k == CHOOSE j \in 1..Len(FlagNames) : FlagNames[j] = name
    IN  2 ^ (k - 1)

\* f & o on the non-negative values of Flag
RECURSIVE BitAnd(_, _)
BitAnd(f, o) ==
    IF f = 0 \/ o = 0 THEN 0
    ELSE (f % 2) * (o % 2) + 2 * BitAnd(f \div 2, o \div 2)

\* func bool2string(b bool) string
bool2string(b) == IF b THEN "on" ELSE "off"

\* A Get that is on only for a flag set that is the one flag.
GetAlone(f, o) == bool2string(f = o)

\* func (f Flag) Get(o Flag) string
Get(f, o) == bool2string(BitAnd(f, o) = o)

\* A loop that passes every boot entry.
RECURSIVE BootArgsAll(_, _)
BootArgsAll(order, i) ==
    IF i >= Len(order) THEN <<>>
    ELSE <<"--boot" \o ToString(i + 1), order[i + 1]>> \o BootArgsAll(order, i + 1)

\* for i, dev := range m.BootOrder, from index i on
RECURSIVE BootArgs(_, _)
BootArgs(order, i) ==
    IF i >= Len(order) THEN <<>>
    ELSE IF i > 3 THEN <<>>
    ELSE <<"--boot" \o ToString(i + 1), order[i + 1]>> \o BootArgs(order, i + 1)

\* the options of Modify that take a flag, with the flag of each
FlagOptions ==
    <<<<"--acpi", "FlagACPI">>, <<"--ioapic", "FlagIOAPIC">>,
      <<"--rtcuseutc", "FlagRTCUseUTC">>, <<"--cpuhotplug", "FlagCPUHotplug">>,
      <<"--pae", "FlagPAE">>, <<"--longmode", "FlagLongMode">>,
      <<"--hpet", "FlagHPET">>, <<"--hwvirtex", "FlagHWvirtEx">>,
      <<"--triplefaultreset", "FlagTripleRaultReset">>,
      <<"--nestedpaging", "FlagNestedPaging">>, <<"--largepages", "FlagLargePages">>,
      <<"--vtxvpid", "FlagVTXVPID">>, <<"--vtxux", "FlagVTXUX">>,
      <<"--accelerate3d", "FlagAccelerate3D">>, <<"--usb", "FlagUSB">>,
      <<"--usbehci", "FlagUSBEHCI">>, <<"--usbxhci", "FlagUSBXHCI">>>>

\* the options and values of the flags from the k-th on
RECURSIVE FlagArgs(_, _)
FlagArgs(f, k) ==
    IF k > Len(FlagOptions) THEN <<>>
    ELSE <<FlagOptions[k][1], Get(f, FlagOf(FlagOptions[k][2]))>> \o FlagArgs(f, k + 1)

\* the arguments that Modify builds from the Machine
ModifyArgs(mach) ==
    <<"modifyvm", mach.Name,
      "--firmware", "bios",
      "--bioslogofadein", "off",
      "--bioslogofadeout", "off",
      "--bioslogodisplaytime", "0",
      "--biosbootmenu", "disabled",
      "--ostype", mach.OSType,
      "--cpus", ToString(mach.CPUs),
      "--memory", ToString(mach.Memory),
      "--vram", ToString(mach.VRAM),
      "--description", mach.Description>>
      \o FlagArgs(mach.Flag, 1)
      \o BootArgs(mach.BootOrder, 0)

\* the arguments that ModifySimple builds from the Machine
ModifySimpleArgs(mach) ==
    <<"modifyvm", mach.Name,
      "--cpus", ToString(mach.CPUs),
      "--memory", ToString(mach.Memory),
      "--usb", Get(mach.Flag, FlagOf("FlagUSB")),
      "--usbehci", Get(mach.Flag, FlagOf("FlagUSBEHCI")),
      "--usbxhci", Get(mach.Flag, FlagOf("FlagUSBXHCI")),
      "--description", mach.Description>>

\* func (m *Machine) Modify() error.  The block that the tool prints
\* afterwards is the one of its machine; the settings passed are not read
\* back by the model.
Modify ==
    /\ Running_("Modify")
    /\ CASE Top.pc = "entry" ->
               \E ok \in BOOLEAN :
                  /\ args' = ModifyArgs(m)
                  /\ Vbm("modifyvm", ok)
                  /\ IF ok THEN Invoke("Refresh", "refreshed")
                     ELSE Return(VbmErr("modifyvm", ok))
         [] OTHER ->   \* "refreshed": return m.Refresh()
               NoCmd /\ Return(ret) /\ args' = args
    /\ UNCHANGED <<m, op, entry>>
    /\ Tracked
    /\ UNCHANGED <<reg, callers>>

\* func (m *Machine) ModifySimple() error
ModifySimple ==
    /\ Running_("ModifySimple")
    /\ CASE Top.pc = "entry" ->
               \E ok \in BOOLEAN :
                  /\ args' = ModifySimpleArgs(m)
                  /\ Vbm("modifyvm", ok)
                  /\ IF ok THEN Invoke("Refresh", "refreshed")
                     ELSE Return(VbmErr("modifyvm", ok))
         [] OTHER ->   \* "refreshed": return m.Refresh()
               NoCmd /\ Return(ret) /\ args' = args
    /\ UNCHANGED <<m, op, entry>>
    /\ Tracked
    /\ UNCHANGED <<reg, callers>>

----------------------------------------------------------------------------
(* The registry query layer: GetMachine, ListMachines, CreateMachine *)

\* the callers that use the query layer at the same time
Callers == {1, 2}

\* the outcome of a command that has not run
NoRun == [stdout |-> <<>>, stderr |-> "", err |-> Nil]

\* A caller that has invoked nothing.  fn is the function it runs, name and
\* basefolder its arguments (name is the id of GetMachine), lines, i and ms
\* the locals of ListMachines, run the outcome of its last showvminfo, cmds
\* the commands it issued, out and err what the function returned.
IdleCaller ==
    [fn |-> "none", pc |-> "idle", name |-> "", basefolder |-> "",
     lines |-> <<>>, i |-> 0, ms |-> <<>>, run |-> NoRun,
     cmds |-> <<>>, out |-> <<>>, err |-> Nil]

NoCallers == [c \in Callers |-> IdleCaller]

\* errors of CreateMachine
ErrMachineExist == [kind |-> "ErrMachineExist", cmd |-> "-"]
ErrEmptyName    == [kind |-> "machine name is empty", cmd |-> "-"]

\* Machines the tool can have registered.  The demo machine prints its block
\* as the tool does: bare keys, quoted texts, bare numbers.  The web machine
\* prints quoted keys, a bare name and quoted numbers.  The bad machine has a
\* memory that is no number.
DemoVM ==
    [name |-> "demo", uuid |-> "1234-uuid", state |-> "running", memory |-> "512",
     cpus |-> "2", vram |-> "16", cfgfile |-> "/vms/demo/demo.vbox",
     desc |-> "web", alt |-> FALSE]
WebVM ==
    [name |-> "web", uuid |-> "5678-uuid", state |-> "poweroff", memory |-> "2048",
     cpus |-> "4", vram |-> "32", cfgfile |-> "/vms/web/web.vbox",
     desc |-> "", alt |-> TRUE]
BadVM ==
    [name |-> "bad", uuid |-> "0bad-uuid", state |-> "aborted", memory |-> "x",
     cpus |-> "1", vram |-> "8", cfgfile |-> "/vms/web/web.vbox",
     desc |-> "", alt |-> FALSE]

\* the machine that createvm --name name [--basefolder basefolder] registers
NewVM(name, basefolder) ==
    [name |-> name, uuid |-> "new-uuid", state |-> "poweroff", memory |-> "128",
     cpus |-> "1", vram |-> "8",
     cfgfile |-> IF basefolder = "" THEN "/vms/new/new.vbox" ELSE "/data/new/new.vbox",
     desc |-> "", alt |-> FALSE]

\* the registries the model starts from
Registries == {<<>>, <<DemoVM>>, <<DemoVM, WebVM>>, <<WebVM, BadVM>>}

\* standard output of showvminfo --machinereadable for the machine vm
InfoLines(vm) ==
    <<Line("name", vm.alt, vm.name, ~vm.alt),
      Line("groups", FALSE, "/", TRUE),
      Line("ostype", vm.alt, "Linux", TRUE),
      Line("UUID", vm.alt, vm.uuid, TRUE),
      Line("CfgFile", FALSE, vm.cfgfile, TRUE),
      NoEqLine,
      Line("memory", FALSE, vm.memory, vm.alt),
      Line("VMState", vm.alt, vm.state, TRUE),
      Line("vram", FALSE, vm.vram, vm.alt),
      Line("cpus", FALSE, vm.cpus, vm.alt),
      Line("boot1", FALSE, "disk", FALSE),
      Line("description", FALSE, vm.desc, TRUE)>>

\* the registered machines that the id names, by name or by UUID
Named(id, r) == {k \in 1..Len(r) : id # "" /\ id \in {r[k].name, r[k].uuid}}

\* vbmOutErr("showvminfo", id, "--machinereadable") against the registry r
RegShowVMInfoRuns(id, r) ==
    (IF Named(id, r) # {}
       THEN {[stdout |-> InfoLines(r[CHOOSE k \in Named(id, r) : \A j \in Named(id, r) : k <= j]),
              stderr |-> "", err |-> Nil]}
       ELSE {[stdout |-> <<>>, stderr |-> StderrNotFound,
              err |-> ExecError("showvminfo")]})
    \cup {[stdout |-> <<>>, stderr |-> StderrOther, err |-> ExecError("showvminfo")],
          [stdout |-> <<>>, stderr |-> "", err |-> ExecError("showvminfo")]}

\* A line of list vms: a quoted name and a braced UUID (wf), or anything else
ListLine(vm) == [wf |-> TRUE, name |-> vm.name, uuid |-> vm.uuid]
MalformedLine == [wf |-> FALSE, name |-> "WARNING", uuid |-> ""]

\* standard output of list vms: one line per registered machine, in order,
\* and one line of another shape after the first
ListVMs(r) ==
    IF r = <<>> THEN <<MalformedLine>>
    ELSE <<ListLine(r[1]), MalformedLine>>
           \o [k \in 1..(Len(r) - 1) |-> ListLine(r[k + 1])]

\* reVMNameUUID.FindStringSubmatch: name and UUID; matched = FALSE is nil
reVMNameUUID(l) ==
    IF l.wf THEN [matched |-> TRUE, r1 |-> l.name, r2 |-> l.uuid]
    ELSE [matched |-> FALSE, r1 |-> "", r2 |-> ""]

\* the arguments of the createvm command of CreateMachine
CreateArgs(name, basefolder) ==
    <<"createvm", "--name", name, "--register">>
      \o (IF basefolder # "" THEN <<"--basefolder", basefolder>> ELSE <<>>)

\* A successful createvm registers the machine; the tool lets no second
\* machine of a name be created.
CanCreate(name, r) == \A k \in 1..Len(r) : r[k].name # name

\* A guard that lets the empty name through.
EmptyNameAllowed(name) == FALSE

\* if name == ""
EmptyName(name) == name = ""

\* A collision guard that finds no machine.
NameExistsNever(ms, name) == FALSE

\* for _, m := range ms { if m.Name == name ... }
NameExists(ms, name) == \E k \in 1..Len(ms) : ms[k].Name = name

Lifecycle == <<m, ext, stack, ret, op, entry, result, cmds, overflow, last,
               refreshes, args>>

\* a caller invokes GetMachine(id)
CallGetMachine(c, id) ==
    /\ callers[c].pc \in {"idle", "done"}
    /\ callers' = [callers EXCEPT ![c] =
                     [IdleCaller EXCEPT !.fn = "GetMachine", !.pc = "show", !.name = id]]
    /\ UNCHANGED <<reg, Lifecycle>>

\* a caller invokes ListMachines()
CallListMachines(c) ==
    /\ callers[c].pc \in {"idle", "done"}
    /\ callers' = [callers EXCEPT ![c] =
                     [IdleCaller EXCEPT !.fn = "ListMachines", !.pc = "list"]]
    /\ UNCHANGED <<reg, Lifecycle>>

\* a caller invokes CreateMachine(name, basefolder)
CallCreateMachine(c, name, basefolder) ==
    /\ callers[c].pc \in {"idle", "done"}
    /\ callers' = [callers EXCEPT ![c] =
                     [IdleCaller EXCEPT !.fn = "CreateMachine", !.pc = "entry",
                                        !.name = name, !.basefolder = basefolder]]
    /\ UNCHANGED <<reg, Lifecycle>>

\* the caller record after its function returned (out, err)
Returned(cr, out, err) == [cr EXCEPT !.pc = "done", !.out = out, !.err = err]

\* func GetMachine(id string) (*Machine, error), called by a caller
GetMachineOp(c) ==
    LET cr == callers[c]
    IN  /\ cr.fn = "GetMachine" /\ cr.pc = "show"
        /\ \E run \in RegShowVMInfoRuns(cr.name, reg) :
              LET r == GetMachine(run)
                  cr1 == [cr EXCEPT !.run = run,
                             !.cmds = Append(@, <<"showvminfo", cr.name, "--machinereadable">>)]
              IN  callers' = [callers EXCEPT ![c] =
                      Returned(cr1, IF r.err # Nil THEN <<>> ELSE <<r.mm>>, r.err)]
        /\ UNCHANGED <<reg, Lifecycle>>

\* A ListMachines that hands back the machines resolved so far together
\* with the error.
AfterListPartial(cr, ms, err) ==
    IF cr.fn = "ListMachines" THEN Returned(cr, cr.ms, err)
    ELSE IF err # Nil THEN Returned(cr, <<>>, err)
    ELSE [cr EXCEPT !.pc = "check"]

\* where the caller goes when its ListMachines returned (ms, err): back to
\* its own caller, or on in CreateMachine
AfterList(cr, ms, err) ==
    IF cr.fn = "ListMachines" THEN Returned(cr, ms, err)
    ELSE IF err # Nil THEN Returned(cr, <<>>, err)
    ELSE [cr EXCEPT !.pc = "check"]

\* func ListMachines() ([]*Machine, error): the list command, then one line
\* of its output per step
ListMachinesOp(c) ==
    LET cr == callers[c]
    IN  /\ cr.pc \in {"list", "scan"}
        /\ IF cr.pc = "list"
           THEN \E ok \in BOOLEAN :
                   LET cr1 == [cr EXCEPT !.cmds = Append(@, <<"list", "vms">>)]
                   IN  callers' = [callers EXCEPT ![c] =
                          IF ok THEN [cr1 EXCEPT !.pc = "scan", !.lines = ListVMs(reg),
                                                 !.i = 1, !.ms = <<>>]
                          ELSE AfterList(cr1, <<>>, ExecError("list"))]
           ELSE IF cr.i > Len(cr.lines)
           THEN callers' = [callers EXCEPT ![c] = AfterList(cr, cr.ms, Nil)]
           ELSE LET res == reVMNameUUID(cr.lines[cr.i])
                IN  IF ~res.matched
                    THEN callers' = [callers EXCEPT ![c] = [cr EXCEPT !.i = @ + 1]]
                    ELSE \E run \in RegShowVMInfoRuns(res.r1, reg) :
                            LET r == GetMachine(run)
                                cr1 == [cr EXCEPT !.run = run,
                                          !.cmds = Append(@, <<"showvminfo", res.r1, "--machinereadable">>)]
                            IN  callers' = [callers EXCEPT ![c] =
                                   IF r.err # Nil THEN AfterList(cr1, <<>>, r.err)
                                   ELSE [cr1 EXCEPT !.ms = Append(@, r.mm), !.i = @ + 1]]
        /\ UNCHANGED <<reg, Lifecycle>>

\* func CreateMachine(name, basefolder string) (*Machine, error), apart from
\* its call of ListMachines
CreateMachineOp(c) ==
    LET cr == callers[c]
    IN  /\ cr.fn = "CreateMachine" /\ cr.pc \in {"entry", "check", "create", "get"}
        /\ CASE cr.pc = "entry" ->
                  /\ callers' = [callers EXCEPT ![c] =
                        IF EmptyName(cr.name) THEN Returned(cr, <<>>, ErrEmptyName)
                        ELSE [cr EXCEPT !.pc = "list"]]
                  /\ UNCHANGED reg
             [] cr.pc = "check" ->
                  /\ callers' = [callers EXCEPT ![c] =
                        IF NameExists(cr.ms, cr.name) THEN Returned(cr, <<>>, ErrMachineExist)
                        ELSE [cr EXCEPT !.pc = "create"]]
                  /\ UNCHANGED reg
             [] cr.pc = "create" ->
                  \E ok \in {b \in BOOLEAN : b => CanCreate(cr.name, reg)} :
                     LET cr1 == [cr EXCEPT !.cmds = Append(@, CreateArgs(cr.name, cr.basefolder))]
                     IN  /\ callers' = [callers EXCEPT ![c] =
                               IF ok THEN [cr1 EXCEPT !.pc = "get"]
                               ELSE Returned(cr1, <<>>, ExecError("createvm"))]
                         /\ reg' = IF ok THEN Append(reg, NewVM(cr.name, cr.basefolder))
                                   ELSE reg
             [] OTHER ->   \* "get": m, err := GetMachine(name)
                  /\ \E run \in RegShowVMInfoRuns(cr.name, reg) :
                        LET r == GetMachine(run)
                            cr1 == [cr EXCEPT !.run = run,
                                      !.cmds = Append(@, <<"showvminfo", cr.name, "--machinereadable">>)]
                        IN  callers' = [callers EXCEPT ![c] =
                               Returned(cr1, IF r.err # Nil THEN <<>> ELSE <<r.mm>>, r.err)]
                  /\ UNCHANGED reg
        /\ UNCHANGED Lifecycle

----------------------------------------------------------------------------
(* Specification *)

\* an earlier snapshot of the machine with the cached state st
OldMachine(n, st) ==
    [Name |-> n, UUID |-> "1234-uuid", State |-> st, CPUs |-> 1,
     Memory |-> 1024, VRAM |-> 8, CfgFile |-> "/old/demo.vbox",
     BaseFolder |-> "/old", OSType |-> "Linux", Flag |-> 1,
     BootOrder |-> <<"disk">>, Description |-> "old"]

\* the whole snapshot after a successful Refresh of a machine in state st
Snapshot(st) ==
    [Name |-> "demo", UUID |-> "1234-uuid", State |-> st, CPUs |-> 2,
     Memory |-> 512, VRAM |-> 16, CfgFile |-> "/vms/demo/demo.vbox",
     BaseFolder |-> "/vms/demo", OSType |-> "", Flag |-> 0,
     BootOrder |-> <<>>, Description |-> "web"]

\* Machines the caller can hold: an earlier snapshot with any cached state,
\* addressed by name, or one addressed by UUID (the name is empty).
InitMachines ==
    {OldMachine("demo", st) : st \in CachedStates} \cup {OldMachine("", Running)}

Init ==
    /\ m \in InitMachines
    /\ ext \in {e \in ExtVMs : e.registered}
    /\ stack = <<>>
    /\ ret = Nil
    /\ op = "none"
    /\ entry = m.State
    /\ result = Nil
    /\ cmds = <<>>
    /\ overflow = FALSE
    /\ last = Entry("-", Nil, "-")
    /\ refreshes = 0
    /\ args = <<>>
    /\ reg = <<>>
    /\ callers = NoCallers

Next ==
    \/ \E o \in Ops : Call(o)
    \/ Refresh
    \/ Start
    \/ Save
    \/ Pause
    \/ Stop
    \/ PoweroffOp
    \/ Restart
    \/ Reset
    \/ Delete
    \/ EnvChange

Spec == Init /\ [][Next]_vars

\* Every operation of a Machine, the modify commands included.
AllOps == Ops \cup {"Modify", "ModifySimple"}

AllNext ==
    \/ Next
    \/ \E o \in AllOps \ Ops : Call(o)
    \/ Modify
    \/ ModifySimple

AllSpec == Init /\ [][AllNext]_vars

\* The guest shuts down after the power button of a Stop.
GuestPowersOff ==
    /\ stack # <<>>
    /\ ext.state = Running
    /\ \E i \in 1..Len(cmds) : cmds[i].cmd = "acpipowerbutton"
    /\ ext' = [ext EXCEPT !.state = Poweroff]
    /\ refreshes' = 0
    /\ UNCHANGED <<m, stack, ret, op, entry, result, cmds, overflow, last>>
    /\ UNCHANGED <<args, reg, callers>>

\* One actor uses one Machine, one operation after the other, and every
\* command succeeds: the Machine starts as a fresh snapshot of the machine
\* of the tool, and nothing but the operations and the guest's shutdown
\* changes that machine.
SeqInit ==
    /\ \E st \in MachineStates :
          /\ m = Snapshot(st)
          /\ ext = [registered |-> TRUE, state |-> st, cfg |-> 1]
    /\ stack = <<>>
    /\ ret = Nil
    /\ op = "none"
    /\ entry = m.State
    /\ result = Nil
    /\ cmds = <<>>
    /\ overflow = FALSE
    /\ last = Entry("-", Nil, "-")
    /\ refreshes = 0
    /\ args = <<>>
    /\ reg = <<>>
    /\ callers = NoCallers

\* the command of the step, if it issued one, succeeded
Succeeds == last'.err = Nil

OkRefresh  == Refresh /\ Succeeds
OkStart    == Start /\ Succeeds
OkSave     == Save /\ Succeeds
OkPause    == Pause /\ Succeeds
OkStop     == Stop /\ Succeeds
OkPoweroff == PoweroffOp /\ Succeeds
OkRestart  == Restart /\ Succeeds
OkReset    == Reset /\ Succeeds
OkDelete   == Delete /\ Succeeds

\* no operation is applied to a machine that a Delete has unregistered
SeqCall(o) == ext.registered /\ Call(o)

SeqNext ==
    \/ \E o \in Ops : SeqCall(o)
    \/ OkRefresh
    \/ OkStart
    \/ OkSave
    \/ OkPause
    \/ OkStop
    \/ OkPoweroff
    \/ OkRestart
    \/ OkReset
    \/ OkDelete
    \/ GuestPowersOff

SeqSpec == SeqInit /\ [][SeqNext]_vars

\* The modify commands alone, on Machines with many flag sets and boot
\* orders.
MaxBoot == 6

Devices == <<"disk", "dvd", "net", "floppy", "none">>

\* the boot orders tried: every length up to MaxBoot, and one that repeats
\* a device
BootOrders ==
    {[i \in 1..n |-> Devices[((i - 1) % Len(Devices)) + 1]] : n \in 0..MaxBoot}
      \cup {<<"net", "net">>}

\* every flag
AllFlags == 2 ^ Len(FlagNames) - 1

\* the flag sets tried: none, one, two neighbours, all, all but one
FlagSets ==
    {0, AllFlags}
      \cup {2 ^ k : k \in 0..(Len(FlagNames) - 1)}
      \cup {2 ^ k + 2 ^ (k + 1) : k \in 0..(Len(FlagNames) - 2)}
      \cup {AllFlags - 2 ^ k : k \in 0..(Len(FlagNames) - 1)}

ModOps == {"Modify", "ModifySimple", "Refresh"}

ModInit ==
    /\ m \in {[OldMachine("demo", Poweroff) EXCEPT !.Flag = f, !.BootOrder = b] :
                f \in FlagSets, b \in BootOrders}
    /\ ext = [registered |-> TRUE, state |-> Poweroff, cfg |-> 1]
    /\ stack = <<>>
    /\ ret = Nil
    /\ op = "none"
    /\ entry = m.State
    /\ result = Nil
    /\ cmds = <<>>
    /\ overflow = FALSE
    /\ last = Entry("-", Nil, "-")
    /\ refreshes = 0
    /\ args = <<>>
    /\ reg = <<>>
    /\ callers = NoCallers

ModNext ==
    \/ \E o \in ModOps : Call(o)
    \/ Modify
    \/ ModifySimple
    \/ Refresh

ModSpec == ModInit /\ [][ModNext]_vars

\* The query layer alone: two callers of GetMachine, ListMachines and
\* CreateMachine against one registry.
RegInit ==
    /\ m = OldMachine("demo", Running)
    /\ ext = [registered |-> TRUE, state |-> Running, cfg |-> 1]
    /\ stack = <<>>
    /\ ret = Nil
    /\ op = "none"
    /\ entry = m.State
    /\ result = Nil
    /\ cmds = <<>>
    /\ overflow = FALSE
    /\ last = Entry("-", Nil, "-")
    /\ refreshes = 0
    /\ args = <<>>
    /\ reg \in Registries
    /\ callers = NoCallers

\* the ids, names and base folders the callers pass
Ids == {"demo", "1234-uuid", "web", "none", ""}
NewNames == {"", "demo", "new"}
BaseFolders == {"", "/data"}

\* The first caller uses every function; the second is the other caller of
\* CreateMachine.
RegNext ==
    \/ \E id \in Ids : CallGetMachine(1, id)
    \/ CallListMachines(1)
    \/ \E n \in NewNames, b \in BaseFolders : CallCreateMachine(1, n, b)
    \/ \E n \in NewNames \ {""} : CallCreateMachine(2, n, "")
    \/ \E c \in Callers : GetMachineOp(c)
    \/ \E c \in Callers : ListMachinesOp(c)
    \/ \E c \in Callers : CreateMachineOp(c)

RegSpec == RegInit /\ [][RegNext]_vars

\* Stop alone, with the caller's thread always running on: a blocking call
\* returns, and the statement after it is executed.
LiveInit ==
    /\ Init
    /\ m.Name = "demo"
    /\ m.State \in {Running, Paused, Saved}

LiveNext ==
    \/ Call("Stop")
    \/ Stop
    \/ Start
    \/ Refresh
    \/ EnvChange

LiveSpec ==
    /\ LiveInit
    /\ [][LiveNext]_vars
    /\ WF_vars(Stop) /\ WF_vars(Start) /\ WF_vars(Refresh)

----------------------------------------------------------------------------
(* Properties *)

\* the operation the caller invoked has returned
Done == stack = <<>> /\ op # "none"

\* the names of the commands issued, in order
CmdNames == [i \in 1..Len(cmds) |-> cmds[i].cmd]

IsPrefix(s, t) == Len(s) <= Len(t) /\ \A i \in 1..Len(s) : s[i] = t[i]

\* the no-op conditions of the routing table
NoopCase(o, st) ==
    \/ o = "Start" /\ st = "running"
    \/ o = "Save" /\ st \in {"poweroff", "aborted", "saved"}
    \/ o = "Pause" /\ st \in {"paused", "poweroff", "aborted", "saved"}
    \/ o = "Stop" /\ st \in {"poweroff", "aborted", "saved"}
    \/ o = "Poweroff" /\ st \in {"poweroff", "aborted", "saved"}

\* C1: an operation invoked in its no-op condition (Start when running; Save
\* when poweroff, aborted or saved; Pause when paused, poweroff, aborted or
\* saved; Stop and Poweroff when poweroff, aborted or saved) issues no
\* external command, calls nothing, and returns success.
C1_NoopIssuesNoCommand ==
    NoopCase(op, entry) =>
        /\ cmds = <<>> /\ ~overflow /\ last.cmd = "-"
        /\ Len(stack) <= 1
        /\ Done => result = Nil

C1_Witness ==
    /\ Done /\ op = "Pause" /\ entry = "saved"
    /\ result = Nil /\ cmds = <<>>
    /\ ext.registered /\ ext.state = "running"

\* the commands of the single-shot operations outside the no-op cases
Routing(o, st) ==
    CASE o = "Start" /\ st = "paused" -> <<"resume">>
      [] o = "Start" /\ st \in {"poweroff", "saved", "aborted"} -> <<"startvm">>
      [] o = "Save" /\ st = "running" -> <<"savestate">>
      [] o = "Save" /\ st = "paused" -> <<"resume", "savestate">>
      [] o = "Pause" /\ st = "running" -> <<"pause">>
      [] o = "Poweroff" /\ st \in {"running", "paused"} -> <<"poweroff">>
      [] o = "Reset" /\ st = "paused" -> <<"resume", "reset">>
      [] o = "Reset" /\ st = "saved" -> <<"startvm", "reset">>
      [] o = "Reset" /\ st \in {"running", "poweroff", "aborted"} -> <<"reset">>
      [] OTHER -> <<>>

\* C2: outside the no-op cases Start, Save, Pause, Poweroff and Reset issue
\* exactly the commands of the routing table for the cached state, in that
\* order: all of them when the operation succeeds, and a prefix ending with
\* the failed command when it fails.
C2_SingleShotRouting ==
    (op \in {"Start", "Save", "Pause", "Poweroff", "Reset"}
       /\ entry \in MachineStates /\ ~NoopCase(op, entry)) =>
        /\ ~overflow
        /\ IsPrefix(CmdNames, Routing(op, entry))
        /\ (Done /\ result = Nil) => CmdNames = Routing(op, entry)
        /\ (Done /\ result # Nil) =>
              /\ cmds # <<>>
              /\ cmds[Len(cmds)].err = result
        /\ \A i \in 1..Len(cmds) : i < Len(cmds) => cmds[i].err = Nil

C2_Witness ==
    /\ Done /\ op = "Reset" /\ entry = "saved" /\ result = Nil
    /\ CmdNames = <<"startvm", "reset">>

\* C3: Stop invoked with cached state running or paused returns success only
\* after a Refresh (the last command) has observed poweroff; every refresh
\* of the loop directly follows a power-button signal, at least one signal
\* is sent, a refresh that observes another state (aborted and saved
\* included) is followed by the next signal, and one that observes poweroff
\* is the last command.  Whenever Stop returns success the cached state is
\* poweroff, aborted or saved.
C3_StopReturnsAfterPoweroffObserved ==
    op = "Stop" =>
        /\ (Done /\ result = Nil) => m.State \in {"poweroff", "aborted", "saved"}
        /\ (entry \in {"running", "paused"} /\ Done /\ result = Nil) =>
              /\ m.State = "poweroff"
              /\ last = Entry("showvminfo", Nil, "poweroff")
              /\ \E i \in 1..Len(cmds) : cmds[i] = Entry("acpipowerbutton", Nil, "-")
        /\ entry \in {"running", "paused"} =>
              \A i \in 1..Len(cmds) :
                 /\ cmds[i].cmd = "showvminfo" =>
                       i > 1 /\ cmds[i - 1] = Entry("acpipowerbutton", Nil, "-")
                 /\ (cmds[i].cmd = "showvminfo" /\ cmds[i].err = Nil
                       /\ cmds[i].obs # "poweroff" /\ i < Len(cmds)) =>
                       cmds[i + 1].cmd = "acpipowerbutton"
                 /\ (cmds[i].cmd = "showvminfo" /\ cmds[i].obs = "poweroff") =>
                       i = Len(cmds) /\ ~overflow

C3_Witness ==
    /\ Done /\ op = "Stop" /\ entry = "paused" /\ result = Nil
    /\ Len(cmds) = 5
    /\ cmds[3] = Entry("showvminfo", Nil, "aborted")
    /\ cmds[5] = Entry("showvminfo", Nil, "poweroff")

\* C6: Delete issues the forceful poweroff iff the cached state is not
\* poweroff, aborted or saved; unregistervm is never followed by another
\* command, is preceded by that poweroff (successful) when one is issued, and
\* is the last command of every Delete whose Poweroff did not fail.
C6_DeletePoweroffThenUnregister ==
    op = "Delete" =>
        /\ ~overflow
        /\ Done => ((\E i \in 1..Len(cmds) : cmds[i].cmd = "poweroff")
                      <=> entry \notin {"poweroff", "aborted", "saved"})
        /\ \A i \in 1..Len(cmds) :
              cmds[i].cmd = "unregistervm" =>
                 /\ i = Len(cmds)
                 /\ \A j \in 1..Len(cmds) : cmds[j].cmd = "poweroff" => j < i
                 /\ entry \notin {"poweroff", "aborted", "saved"} =>
                       i = 2 /\ cmds[1] = Entry("poweroff", Nil, "-")
        /\ (Done /\ \A i \in 1..Len(cmds) : cmds[i] # Entry("poweroff", ExecError("poweroff"), "-")) =>
              /\ cmds # <<>>
              /\ last.cmd = "unregistervm"
              /\ cmds[Len(cmds)] = last

C6_Witness ==
    /\ Done /\ op = "Delete" /\ entry = "paused" /\ result = Nil
    /\ CmdNames = <<"poweroff", "unregistervm">>
    /\ ~ext.registered

\* C7: in Save, Stop, Restart, Reset and Delete a failed sub-step is the last
\* command issued: the operation issues nothing after it and returns the
\* error of that sub-step; an operation that returns an error returns the
\* error of its last command.
C7_FailureIsLast ==
    op \in {"Save", "Stop", "Restart", "Reset", "Delete"} =>
        /\ \A i \in 1..Len(cmds) :
              cmds[i].err # Nil => i = Len(cmds) /\ ~overflow /\ last = cmds[i]
        /\ Done => result = last.err
        /\ (last.err # Nil /\ stack # <<>>) => ret = last.err

C7_NothingAfterFailure ==
    (op \in {"Save", "Stop", "Restart", "Reset", "Delete"}
       /\ stack # <<>> /\ last.err # Nil /\ ~EnvChange) =>
        /\ UNCHANGED <<m, ext, cmds, overflow, last>>
        /\ Len(stack') < Len(stack)
        /\ ret' = last.err

C7_StopAtFirstFailure == []C7_FailureIsLast /\ [][C7_NothingAfterFailure]_vars

C7_Witness ==
    /\ Done /\ op = "Restart" /\ entry = "paused"
    /\ result = ErrMachineNotExist
    /\ CmdNames = <<"resume", "resume", "acpipowerbutton", "showvminfo">>

\* Stop is running
StopRunning == op = "Stop" /\ stack # <<>>

\* a Stop that entered its loop returns only on a failed sub-step or after
\* its last refresh observed poweroff
C4_ReturnNeedsPoweroff ==
    (op = "Stop" /\ Done /\ entry \notin {"poweroff", "aborted", "saved"}) =>
        /\ result = last.err
        /\ result = Nil => last = Entry("showvminfo", Nil, "poweroff")

\* a refresh observes poweroff only while the machine is powered off
C4_ObservedIsExternal ==
    (Running_("Refresh") /\ stack' # stack /\ ret' = Nil /\ m'.State = "poweroff")
        => ext.state = "poweroff"

\* C4: Stop has no timeout.  A running Stop whose machine stays powered off
\* (and reports its state) eventually returns, with success unless a
\* sub-step failed; it returns only on a failed sub-step or after a refresh
\* observed poweroff, so while the machine never reaches poweroff and
\* nothing fails it does not return, and the power-button signal and the
\* refresh both recur for as long as it runs.
C4_StopUnboundedPoll ==
    /\ (StopRunning /\ Settings[ext.cfg].hasState) ~> (Done \/ ext.state # "poweroff")
    /\ StopRunning ~> (Done \/ last.cmd = "acpipowerbutton")
    /\ StopRunning ~> (Done \/ last.cmd = "showvminfo")
    /\ []C4_ReturnNeedsPoweroff
    /\ [][C4_ObservedIsExternal]_vars

C4_Witness ==
    /\ Done /\ op = "Stop" /\ entry = "running" /\ result = Nil
    /\ overflow
    /\ ext.state = "poweroff"

\* the commands of a successful Restart from st, as the routing table has
\* them: the initial Start command for paused and saved, then pairs of
\* power-button signal and refresh, the last refresh observing poweroff and
\* none before it, then one headless start
RestartPattern(st) ==
    LET k == IF st \in {"paused", "saved"} THEN 1 ELSE 0
        n == Len(cmds)
    IN  /\ n >= k + 3
        /\ (n - k) % 2 = 1
        /\ st = "paused" => cmds[1].cmd = "resume"
        /\ st = "saved" => cmds[1].cmd = "startvm"
        /\ \A i \in (k + 1)..(n - 1) :
              /\ (i - k) % 2 = 1 => cmds[i].cmd = "acpipowerbutton"
              /\ (i - k) % 2 = 0 => cmds[i].cmd = "showvminfo"
              /\ (cmds[i].obs = "poweroff") <=> (i = n - 1)
        /\ cmds[n].cmd = "startvm"

\* C5: a successful Restart from running, paused or saved issues one initial
\* Start command (paused and saved only), then power-button signals until a
\* refresh observes poweroff, then one headless start.
C5_RestartPowersOffBetween ==
    (op = "Restart" /\ entry \in {"running", "paused", "saved"}
       /\ Done /\ result = Nil /\ ~overflow) => RestartPattern(entry)

\* a Refresh returns: the step of the Refresh call
RefreshReturns == Running_("Refresh") /\ stack' # stack

C8_NeverPartial == m \in InitMachines \cup {Snapshot(st) : st \in CachedStates}

C8_ErrorKeepsMachine == (RefreshReturns /\ ret' # Nil) => m' = m

\* C8: a Refresh that returns an error (machine not found, execution
\* failure, parse failure of memory, cpus or vram) leaves every field of the
\* Machine as it was, and the Machine is at all times either the one the
\* caller started with or a completely parsed snapshot.
C8_RefreshAllOrNothing == []C8_NeverPartial /\ [][C8_ErrorKeepsMachine]_vars

C8_Witness ==
    /\ Done /\ op = "Refresh" /\ result = ParseError("vram")
    /\ m = OldMachine("demo", "paused")
    /\ ext.state = "running"

\* C9: a successful Refresh that follows a successful Refresh of the same
\* Machine, with no change of the external machine in between, leaves every
\* field as the first one set it.
C9_RefreshIdempotent ==
    [][(RefreshReturns /\ ret' = Nil /\ refreshes >= 1) => m' = m]_vars

C9_Witness ==
    /\ Done /\ op = "Refresh" /\ result = Nil
    /\ refreshes = 2
    /\ m = Snapshot("saved")

\* C10 as stated: after a successful Refresh the state of the Machine is one
\* of the five enumerated values.
C10_StateIsEnumerated ==
    (last.cmd = "showvminfo" /\ last.err = Nil) => m.State \in MachineStates

\* C10 amended: after a successful Refresh the state of the Machine is the
\* value of the VMState line as reported, and empty when the output has no
\* such line; it is one of the five values exactly when the tool reported
\* one of them.
C10_StateIsReportedValue ==
    refreshes >= 1 =>
        /\ m.State = IF Settings[ext.cfg].hasState THEN ext.state ELSE ""
        /\ m.State \in MachineStates <=>
              (Settings[ext.cfg].hasState /\ ext.state \in MachineStates)

C10_Witness ==
    /\ Done /\ op = "Refresh" /\ result = Nil
    /\ refreshes >= 1
    /\ ext.state = "stopping"
    /\ m.State = "stopping"

----------------------------------------------------------------------------
(* The query layer *)

\* the caller has returned from the function fn
Back(c, fn) == callers[c].fn = fn /\ callers[c].pc = "done"

\* C11: when the showvminfo command of GetMachine fails, the error returned
\* is the machine-does-not-exist error if the error stream holds the
\* could-not-find text and the execution error of the command otherwise; the
\* two differ, and no Machine is returned in either case.
C11_NotFoundDistinguished ==
    \A c \in Callers :
        (Back(c, "GetMachine") /\ callers[c].run.err # Nil) =>
            /\ callers[c].out = <<>>
            /\ callers[c].run.stderr = StderrNotFound =>
                  callers[c].err = ErrMachineNotExist
            /\ callers[c].run.stderr # StderrNotFound =>
                  callers[c].err = callers[c].run.err
            /\ callers[c].run.err # ErrMachineNotExist

C11_Witness ==
    /\ Back(1, "GetMachine")
    /\ callers[1].name = "none"
    /\ callers[1].run.stderr = StderrNotFound
    /\ callers[1].err = ErrMachineNotExist
    /\ callers[1].out = <<>>

\* the numbers and folders that the registered machines print, as a table
NumberOf(s) ==
    CASE s = "512" -> 512 [] s = "2" -> 2 [] s = "16" -> 16
      [] s = "2048" -> 2048 [] s = "4" -> 4 [] s = "32" -> 32
      [] s = "128" -> 128 [] s = "1" -> 1 [] s = "8" -> 8
      [] OTHER -> -1

FolderOf(p) ==
    CASE p = "/vms/demo/demo.vbox" -> "/vms/demo"
      [] p = "/vms/web/web.vbox" -> "/vms/web"
      [] p = "/vms/new/new.vbox" -> "/vms/new"
      [] p = "/data/new/new.vbox" -> "/data/new"
      [] OTHER -> "?"

\* the Machine that the claim expects for the block of the registered vm
MachineOf(vm) ==
    [Name |-> vm.name, UUID |-> vm.uuid, State |-> vm.state,
     CPUs |-> NumberOf(vm.cpus), Memory |-> NumberOf(vm.memory),
     VRAM |-> NumberOf(vm.vram), CfgFile |-> vm.cfgfile,
     BaseFolder |-> FolderOf(vm.cfgfile), OSType |-> "", Flag |-> 0,
     BootOrder |-> <<>>, Description |-> vm.desc]

\* the block has numbers where the code parses numbers
Numeric(vm) == \A s \in {vm.memory, vm.cpus, vm.vram} : NumberOf(s) >= 0

\* C12: a GetMachine whose command succeeded on a block with name, UUID,
\* VMState, memory, cpus, vram and CfgFile lines, bare or quoted, and other
\* keys besides, returns the Machine with exactly those values, the
\* directory of CfgFile as base folder, and nothing from the other keys; the
\* demo block gives demo, 1234-uuid, running, 512, 2, 16 and /vms/demo.
C12_KeysMapToFields ==
    \A c \in Callers : \A k \in 1..Len(reg) :
        (/\ Back(c, "GetMachine")
         /\ callers[c].run.err = Nil
         /\ callers[c].run.stdout = InfoLines(reg[k])
         /\ Numeric(reg[k]))
        => /\ callers[c].err = Nil
           /\ callers[c].out = <<MachineOf(reg[k])>>
           /\ reg[k] = DemoVM =>
                 callers[c].out[1] =
                    [Name |-> "demo", UUID |-> "1234-uuid", State |-> Running,
                     CPUs |-> 2, Memory |-> 512, VRAM |-> 16,
                     CfgFile |-> "/vms/demo/demo.vbox", BaseFolder |-> "/vms/demo",
                     OSType |-> "", Flag |-> 0, BootOrder |-> <<>>,
                     Description |-> "web"]

C12_Witness ==
    /\ Back(1, "GetMachine")
    /\ callers[1].name = "1234-uuid"
    /\ callers[1].run.stdout = InfoLines(DemoVM)
    /\ callers[1].err = Nil
    /\ callers[1].out[1].BaseFolder = "/vms/demo"
    /\ callers[1].out[1].Memory = 512

\* the lines of a list output that have the shape of a name and a UUID
RECURSIVE WellFormed(_)
WellFormed(lines) ==
    IF lines = <<>> THEN <<>>
    ELSE (IF Head(lines).wf THEN <<Head(lines)>> ELSE <<>>) \o WellFormed(Tail(lines))

\* the registered machine of a name
Registered(name) == CHOOSE vm \in {reg[k] : k \in 1..Len(reg)} : vm.name = name

\* the showvminfo of the caller failed, as a command or by its content
ResolveFailed(c) ==
    \/ callers[c].run.err # Nil
    \/ callers[c].run.stdout = InfoLines(BadVM)

\* C13: a ListMachines that succeeds returns one Machine per well-formed
\* line of the list output, in line order, each the resolved machine of that
\* line, and the lines of another shape are skipped without error; when the
\* list command or the resolving of one entry fails, ListMachines returns at
\* once with that error and no list.
C13_ListPerWellFormedLine ==
    \A c \in Callers :
        callers[c].fn = "ListMachines" =>
            /\ (Back(c, "ListMachines") /\ callers[c].err = Nil) =>
                  LET wf == WellFormed(callers[c].lines)
                  IN  /\ Len(callers[c].out) = Len(wf)
                      /\ \A j \in 1..Len(wf) :
                            /\ callers[c].out[j].Name = wf[j].name
                            /\ callers[c].out[j].UUID = wf[j].uuid
                            /\ callers[c].out[j] = MachineOf(Registered(wf[j].name))
                      /\ ~ResolveFailed(c)
            /\ ResolveFailed(c) =>
                  /\ Back(c, "ListMachines")
                  /\ callers[c].out = <<>>
                  /\ callers[c].err \in {callers[c].run.err, ErrMachineNotExist,
                                         ParseError("memory")} \ {Nil}
                  /\ callers[c].cmds[Len(callers[c].cmds)][1] = "showvminfo"
            /\ (Back(c, "ListMachines") /\ callers[c].err # Nil) =>
                  /\ callers[c].out = <<>>
                  /\ ResolveFailed(c) \/ callers[c].err = ExecError("list")

C13_Witness ==
    /\ Back(1, "ListMachines")
    /\ callers[1].err = Nil
    /\ callers[1].lines = <<ListLine(DemoVM), MalformedLine>>
    /\ callers[1].out = <<MachineOf(DemoVM)>>

\* a listing that is aborted after its first entry was resolved
C13_Aborted ==
    /\ Back(1, "ListMachines")
    /\ callers[1].err = ParseError("memory")
    /\ callers[1].ms = <<MachineOf(WebVM)>>
    /\ callers[1].out = <<>>

\* the commands of the caller that create a machine
Creates(c) == {k \in 1..Len(callers[c].cmds) : callers[c].cmds[k][1] = "createvm"}

\* C14: CreateMachine with an empty name returns the empty-name error at
\* its first step, whatever the base folder: the caller has issued no list,
\* createvm or showvminfo command and got no Machine.
C14_EmptyNameBeforeAnyCommand ==
    \A c \in Callers :
        (callers[c].fn = "CreateMachine" /\ callers[c].name = ""
            /\ callers[c].pc # "entry") =>
            /\ callers[c].pc = "done"
            /\ callers[c].err = ErrEmptyName
            /\ callers[c].cmds = <<>>
            /\ callers[c].out = <<>>

C14_Witness ==
    /\ Back(1, "CreateMachine")
    /\ callers[1].name = ""
    /\ callers[1].basefolder = "/data"
    /\ callers[1].err = ErrEmptyName
    /\ callers[1].cmds = <<>>

\* the caller's list command succeeded and its output was scanned to the end
Listed(c) == callers[c].lines # <<>> /\ callers[c].i > Len(callers[c].lines)

\* the list output of the caller has a line for the name it wants to create
InListing(c) ==
    \E j \in 1..Len(callers[c].lines) :
        callers[c].lines[j].wf /\ callers[c].lines[j].name = callers[c].name

\* C15: a CreateMachine whose name is not empty and stands in the listing
\* it obtained returns the already-exists error once the listing is checked,
\* with no Machine; it issues no createvm command, also when its listing
\* fails on the way, and none of its steps changes the registry.
C15_ExistingNameRefused ==
    /\ [](\A c \in Callers :
            (callers[c].fn = "CreateMachine" /\ callers[c].name # "" /\ InListing(c)) =>
                /\ Creates(c) = {}
                /\ callers[c].pc \in {"scan", "check", "done"}
                /\ (Listed(c) /\ callers[c].pc = "done") =>
                      /\ callers[c].err = ErrMachineExist
                      /\ callers[c].out = <<>>)
    /\ [][\A c \in Callers :
            (callers[c]' # callers[c] /\ callers[c].fn = "CreateMachine" /\ InListing(c))
                => reg' = reg]_vars

C15_Witness ==
    /\ Back(1, "CreateMachine")
    /\ callers[1].name = "demo"
    /\ callers[1].err = ErrMachineExist
    /\ callers[1].cmds = <<<<"list", "vms">>, <<"showvminfo", "demo", "--machinereadable">>>>
    /\ reg = <<DemoVM>>

\* C16: the collision guard of CreateMachine sees only the caller's own
\* listing: a createvm command is issued exactly by a caller whose completed
\* listing lacked the name, whatever the registry holds by then.  Two callers
\* that both listed before either created both pass the guard and both issue
\* createvm for the name (C16_Witness), so the guard does not keep the
\* create commands of a name to one.
C16_GuardSeesOwnListingOnly ==
    \A c \in Callers :
        /\ Creates(c) # {} =>
              /\ callers[c].fn = "CreateMachine"
              /\ Listed(c)
              /\ ~InListing(c)
              /\ Cardinality(Creates(c)) = 1
        /\ (callers[c].fn = "CreateMachine" /\ callers[c].pc \in {"get", "done"}
               /\ Listed(c) /\ ~InListing(c)) => Creates(c) # {}

\* both callers have issued createvm for the same name, absent at the start
C16_Witness ==
    /\ callers[1].name = "new" /\ callers[2].name = "new"
    /\ Creates(1) # {} /\ Creates(2) # {}
    /\ callers[1].cmds[Len(callers[1].cmds)] = <<"createvm", "--name", "new", "--register">>
    /\ callers[2].cmds[Len(callers[2].cmds)] = <<"createvm", "--name", "new", "--register">>
    /\ callers[1].lines = callers[2].lines
    /\ \E k \in 1..Len(reg) : reg[k].name = "new"

----------------------------------------------------------------------------
(* The modify commands *)

\* the step of Modify that builds the arguments and issues the command
ModifyIssues == At("Modify", "entry") /\ stack' # stack

\* the options of the boot slots
BootOptions == <<"--boot1", "--boot2", "--boot3", "--boot4">>

\* C17: the arguments of the modify command end with the first min(n, 4)
\* entries of the boot order of length n, entry i as the value of
\* --boot(i+1), in their order; no other boot option is passed, and the
\* command is issued also when entries beyond the fourth are dropped.
C17_FirstFourBootEntries ==
    [][ModifyIssues =>
          LET n == Len(m.BootOrder)
              k == IF n < 4 THEN n ELSE 4
          IN  /\ Len(args') = 56 + 2 * k
              /\ \A i \in 1..k :
                    /\ args'[56 + 2 * i - 1] = BootOptions[i]
                    /\ args'[56 + 2 * i] = m.BootOrder[i]
              /\ \A j \in 1..56 : \A i \in 1..4 : args'[j] # BootOptions[i]
              /\ last'.cmd = "modifyvm"
              /\ last'.err \in {Nil, ExecError("modifyvm")}]_vars

C17_Witness ==
    /\ op = "Modify"
    /\ At("Refresh", "entry")
    /\ Len(m.BootOrder) = 6
    /\ Len(args) = 64
    /\ SubSeq(args, 57, 64) = <<"--boot1", "disk", "--boot2", "dvd",
                                "--boot3", "net", "--boot4", "floppy">>
    /\ last = Entry("modifyvm", Nil, "-")

\* bit k of the flag set f, by division
Bit(f, k) == (f \div (2 ^ k)) % 2 = 1

\* C18: the value that Modify passes for each flag option, the Get of that
\* flag, is on iff the bit of the flag is set in the Machine's flag set and
\* off otherwise, whatever other bits are set; the flags are pairwise
\* distinct powers of two, the k-th declared being 2^(k-1).
C18_GetExactPerBit ==
    /\ [](/\ Cardinality({FlagOf(FlagNames[k]) : k \in 1..Len(FlagNames)})
                 = Len(FlagNames)
          /\ \A k \in 1..Len(FlagNames) :
                /\ FlagOf(FlagNames[k]) = 2 ^ (k - 1)
                /\ Get(m.Flag, FlagOf(FlagNames[k]))
                      = IF Bit(m.Flag, k - 1) THEN "on" ELSE "off")
    /\ [][ModifyIssues =>
            \A k \in 1..Len(FlagNames) :
               /\ args'[22 + 2 * k - 1] = FlagOptions[k][1]
               /\ FlagOptions[k][2] = FlagNames[k]
               /\ args'[22 + 2 * k] = IF Bit(m.Flag, k - 1) THEN "on" ELSE "off"]_vars

C18_Witness ==
    /\ op = "Modify"
    /\ At("Refresh", "entry")
    /\ m.Flag = FlagOf("FlagPAE") + FlagOf("FlagLongMode")
    /\ args[31] = "--pae" /\ args[32] = "on"
    /\ args[33] = "--longmode" /\ args[34] = "on"
    /\ args[35] = "--hpet" /\ args[36] = "off"
    /\ args[23] = "--acpi" /\ args[24] = "off"

----------------------------------------------------------------------------
(* The snapshot *)

\* the operations that perform no Refresh
SingleShot == {"Start", "Save", "Pause", "Poweroff", "Reset", "Delete"}

\* C19: a field of the Machine changes only in the step of a Refresh that
\* returns no error.  No step of Start, Save, Pause, Poweroff, Reset or
\* Delete changes a field, whether its commands succeed or fail; Stop,
\* Restart, Modify and ModifySimple change fields in the steps of their
\* Refresh alone.
C19_OnlyRefreshChangesFields ==
    [][/\ m' # m =>
            /\ Running_("Refresh")
            /\ last'.cmd = "showvminfo" /\ last'.err = Nil
            /\ ret' = Nil
            /\ op \in {"Refresh", "Stop", "Restart", "Modify", "ModifySimple"}
       /\ op \in SingleShot => m' = m]_vars

C19_Witness ==
    /\ Done /\ op = "Start" /\ result = Nil
    /\ entry = Poweroff
    /\ CmdNames = <<"startvm">>
    /\ ext.state = Running
    /\ m = OldMachine("demo", Poweroff)

\* a Modify that changed the Machine by its Refresh
C19_ModifyRefreshed ==
    /\ Done /\ op = "Modify" /\ result = Nil
    /\ CmdNames = <<"modifyvm", "showvminfo">>
    /\ m.CfgFile = "/vms/demo/demo.vbox"

----------------------------------------------------------------------------
(* Delete after a stale snapshot *)

\* C20 as stated: in sequential use by one actor with every command
\* succeeding, Delete issues unregistervm only when the machine of the tool
\* is neither running nor paused.
C20_DeleteUnregistersStopped ==
    (op = "Delete" /\ last.cmd = "unregistervm") => ext.state \notin {Running, Paused}

\* a Delete after a Start on a Machine cached as poweroff: no poweroff
\* command, and the running machine is unregistered
C20_DeletedRunning ==
    /\ Done /\ op = "Delete" /\ result = Nil
    /\ entry = Poweroff
    /\ CmdNames = <<"unregistervm">>
    /\ ext.state = Running
    /\ ~ext.registered

----------------------------------------------------------------------------
(* The fields that no line of the output fills *)

\* the OS type, the flags and the boot order of the Machine are empty
Wiped(mach) == mach.OSType = "" /\ mach.Flag = 0 /\ mach.BootOrder = <<>>

\* C21: a Refresh that returns no error leaves the OS type, the flag set
\* and the boot order of the Machine empty, whatever they held and although
\* the output names an OS type, a flag and a boot device; so it is after
\* every successful Refresh, Modify and ModifySimple, and a Modify that
\* follows one of them passes an empty OS type, off for every flag and no
\* boot option.
C21_RefreshWipesUnparsedFields ==
    /\ []((Done /\ op \in {"Refresh", "Modify", "ModifySimple"} /\ result = Nil)
            => Wiped(m))
    /\ [][/\ (RefreshReturns /\ ret' = Nil) => Wiped(m')
          /\ (ModifyIssues /\ refreshes >= 1) =>
                /\ Len(args') = 56
                /\ args'[13] = "--ostype" /\ args'[14] = ""
                /\ \A k \in 1..Len(FlagNames) : args'[22 + 2 * k] = "off"]_vars

\* a Modify that passed flags and boot entries and came back with a Machine
\* that holds none of them
C21_Witness ==
    /\ Done /\ op = "Modify" /\ result = Nil
    /\ Len(args) = 64
    /\ args[14] = "Linux"
    /\ args[24] = "on"
    /\ args[57] = "--boot1"
    /\ Wiped(m)

\* the second Modify: the command is issued with every flag off
C21_SecondModify ==
    /\ op = "Modify" /\ At("Refresh", "entry")
    /\ refreshes >= 1
    /\ last = Entry("modifyvm", Nil, "-")
    /\ Len(args) = 56
    /\ args[24] = "off"
    /\ Wiped(m)

====
